---- MODULE Spec2Model ----
(***************************************************************************)
(* Worker Canvas Bootstrap (rcade-sample-rs).                              *)
(*                                                                         *)
(* Two builds of the worker script exist: the baseline one                 *)
(* (src/unnamed/part_000) and the one that also replaces getContext on     *)
(* the received OffscreenCanvas (src/host/worker.js).  Both are run side   *)
(* by side here, one worker per variant, on the same inputs.               *)
(*                                                                         *)
(* JavaScript values are records [tag, str, ref]; objects that have an     *)
(* identity (the attribute objects handed to getContext) live in a heap    *)
(* and are referred to by index.  Attribute objects are ordinary           *)
(* extensible objects.                                                     *)
(***************************************************************************)
EXTENDS Integers, Sequences, FiniteSets, TLC

\* ------------------------------------------------------------ bounds
\* messages the page posts to the worker
MaxMessages == 3
\* getContext calls the started module makes
MaxCalls == 1
\* ------------------------------------------------------------ JS values
Variants == {"baseline", "override"}

Undefined == [tag |-> "undefined", str |-> "", ref |-> 0]
Null == [tag |-> "null", str |-> "", ref |-> 0]
Str(s) == [tag |-> "string", str |-> s, ref |-> 0]
Obj(r) == [tag |-> "object", str |-> "", ref |-> r]
OffscreenCanvas(c) == [tag |-> "OffscreenCanvas", str |-> "", ref |-> c]
Handler == [tag |-> "function", str |-> "onmessage", ref |-> 0]

CanvasIds == {1, 2}

\* JavaScript's typeof operator
TypeOf(v) ==
  CASE v.tag = "undefined" -> "undefined"
    [] v.tag = "string" -> "string"
    [] v.tag = "function" -> "function"
    [] OTHER -> "object"

\* v instanceof OffscreenCanvas
InstanceOfOffscreenCanvas(v) == v.tag = "OffscreenCanvas"

\* ------------------------------------------------------------ messages
\* event.data: the value itself and what reading .type and .canvas gives
Data(val, type, canvas) == [val |-> val, type |-> type, canvas |-> canvas]

NoEvent == Data(Undefined, Undefined, Undefined)

Messages ==
  { Data(Str("CANVAS"), Undefined, Undefined),
    Data(Null, Undefined, Undefined),
    Data(Obj(0), Str("PING"), OffscreenCanvas(1)),
    Data(Obj(0), Str("CANVAS"), Undefined),
    Data(Obj(0), Str("CANVAS"), Obj(0)) }
  \cup { Data(Obj(0), Str("CANVAS"), OffscreenCanvas(c)) : c \in CanvasIds }

ENTRY_SCRIPT == "./app/rose-sample-rs.js"
WASM_PATH == "./app/rose-sample-rs_bg.wasm"

\* how the external module's load and start turn out
InitOutcomes == {"started", "import_failed", "start_failed"}

VARIABLES
  RUST_OFFSCREEN_CANVAS,  \* [Variants -> Null or an OffscreenCanvas]
  onmessage,              \* [Variants -> Handler or Null]
  getContext,             \* [Variants -> [CanvasIds -> wrapper layers over the native getContext]]
  console,                \* [Variants -> sequence of console levels written]
  initCalls,              \* [Variants -> sequence of init() invocations]
  event,                  \* data of the last message delivered
  delivered,              \* number of messages delivered
  call,                   \* [Variants -> the last getContext call on the stored canvas]
  calls,                  \* number of getContext calls made
  effects,                \* [Variants -> the handler's writes and its init() call, in the order made]
  queue                   \* messages posted before the worker handled any; delivered counts those handled

vars == <<RUST_OFFSCREEN_CANVAS, onmessage, getContext, console, initCalls,
          event, delivered, call, calls, effects, queue>>

\* the worker global scope of variant v, as one record
Self(v) ==
  [ RUST_OFFSCREEN_CANVAS |-> RUST_OFFSCREEN_CANVAS[v],
    onmessage |-> onmessage[v],
    getContext |-> getContext[v],
    console |-> console[v],
    initCalls |-> initCalls[v],
    effects |-> effects[v] ]

ConsoleWrite(self, level) == [self EXCEPT !.console = Append(@, level)]

\* ------------------------------------------------------------ handshake
\* ShapeOk without the instanceof test on data.canvas
ShapeOk_NoCanvasCheck(data) ==
  /\ TypeOf(data.val) = "object"
  /\ data.val # Null
  /\ data.type = Str("CANVAS")

\* ShapeOk comparing data.type with "canvas" in lower case
ShapeOk_WrongTag(data) ==
  /\ TypeOf(data.val) = "object"
  /\ data.val # Null
  /\ data.type = Str("canvas")
  /\ InstanceOfOffscreenCanvas(data.canvas)

\* the condition of the handler's second if
ShapeOk(data) ==
  /\ TypeOf(data.val) = "object"
  /\ data.val # Null
  /\ data.type = Str("CANVAS")
  /\ InstanceOfOffscreenCanvas(data.canvas)

\* init with the two paths exchanged
init_SwappedPaths(self, outcome) ==
  [self EXCEPT !.initCalls = Append(@,
     [ importScripts |-> <<WASM_PATH>>,
       wasm_bindgen |-> IF outcome = "import_failed" THEN << >>
                        ELSE <<[module_or_path |-> ENTRY_SCRIPT]>>,
       outcome |-> outcome,
       canvasAtCall |-> self.RUST_OFFSCREEN_CANVAS,
       onmessageAtCall |-> self.onmessage,
       getContextAtCall |-> self.getContext ]),
     !.effects = Append(@, "init")]

\* init that, when the module does not start, listens again for a new canvas
init_RetryOnFailure(self, outcome) ==
  [self EXCEPT !.initCalls = Append(@,
     [ importScripts |-> <<ENTRY_SCRIPT>>,
       wasm_bindgen |-> IF outcome = "import_failed" THEN << >>
                        ELSE <<[module_or_path |-> WASM_PATH]>>,
       outcome |-> outcome,
       canvasAtCall |-> self.RUST_OFFSCREEN_CANVAS,
       onmessageAtCall |-> self.onmessage,
       getContextAtCall |-> self.getContext ]),
     !.effects = Append(@, "init"),
     !.onmessage = IF outcome = "started" THEN @ ELSE Handler,
     !.RUST_OFFSCREEN_CANVAS = IF outcome = "started" THEN @ ELSE Null]

\* function init(): importScripts, then wasm_bindgen unless importScripts threw
init(self, outcome) ==
  [self EXCEPT !.initCalls = Append(@,
     [ importScripts |-> <<ENTRY_SCRIPT>>,
       wasm_bindgen |-> IF outcome = "import_failed" THEN << >>
                        ELSE <<[module_or_path |-> WASM_PATH]>>,
       outcome |-> outcome,
       canvasAtCall |-> self.RUST_OFFSCREEN_CANVAS,
       onmessageAtCall |-> self.onmessage,
       getContextAtCall |-> self.getContext ]),
     !.effects = Append(@, "init")]

\* the replacement made twice over, the second wrapper around the first
InstallOverride_Twice(self) ==
  [self EXCEPT !.getContext[self.RUST_OFFSCREEN_CANVAS.ref] = @ + 2,
               !.effects = Append(@, "install")]

\* self.RUST_OFFSCREEN_CANVAS.getContext = (...args) => { ... ORIGINAL_GET_CONTEXT(...args) }
InstallOverride(self) ==
  [self EXCEPT !.getContext[self.RUST_OFFSCREEN_CANVAS.ref] = @ + 1,
               !.effects = Append(@, "install")]

\* self.RUST_OFFSCREEN_CANVAS = data.canvas
Store(self, data) ==
  [self EXCEPT !.RUST_OFFSCREEN_CANVAS = data.canvas,
               !.effects = Append(@, "store")]

\* self.onmessage = null
Deregister(self) ==
  [self EXCEPT !.onmessage = Null, !.effects = Append(@, "deregister")]

\* the baseline handler with neither the already-initialized check nor the
\* deregistration
OnMessageBaseline_Rebinds(self, data, outcome) ==
  IF ShapeOk(data)
  THEN LET s1 == Store(self, data)
           s2 == ConsoleWrite(s1, "debug")
           s3 == ConsoleWrite(s2, "debug")
       IN init(s3, outcome)
  ELSE ConsoleWrite(self, "error")

\* the baseline handler without self.onmessage = null
OnMessageBaseline_KeepsListening(self, data, outcome) ==
  IF self.RUST_OFFSCREEN_CANVAS # Null
  THEN ConsoleWrite(self, "warn")
  ELSE IF ShapeOk(data)
       THEN LET s1 == Store(self, data)
                s2 == ConsoleWrite(s1, "debug")
                s3 == ConsoleWrite(s2, "debug")
            IN init(s3, outcome)
       ELSE ConsoleWrite(self, "error")

\* the baseline handler with self.onmessage = null ahead of the shape check
OnMessageBaseline_DeregistersFirst(self, data, outcome) ==
  IF self.RUST_OFFSCREEN_CANVAS # Null
  THEN ConsoleWrite(self, "warn")
  ELSE LET s0 == Deregister(self) IN
       IF ShapeOk(data)
       THEN LET s1 == Store(s0, data)
                s2 == ConsoleWrite(s1, "debug")
                s3 == ConsoleWrite(s2, "debug")
            IN init(s3, outcome)
       ELSE ConsoleWrite(s0, "error")

\* the baseline handler testing the shape ahead of the already-initialized check
OnMessageBaseline_ShapeCheckFirst(self, data, outcome) ==
  IF ~ShapeOk(data)
  THEN ConsoleWrite(self, "error")
  ELSE IF self.RUST_OFFSCREEN_CANVAS # Null
       THEN ConsoleWrite(self, "warn")
       ELSE LET s1 == Store(self, data)
                s2 == ConsoleWrite(s1, "debug")
                s3 == Deregister(s2)
                s4 == ConsoleWrite(s3, "debug")
            IN init(s4, outcome)

\* self.onmessage of src/unnamed/part_000
OnMessageBaseline(self, data, outcome) ==
  IF self.RUST_OFFSCREEN_CANVAS # Null
  THEN ConsoleWrite(self, "warn")
  ELSE IF ShapeOk(data)
       THEN LET s1 == Store(self, data)
                s2 == ConsoleWrite(s1, "debug")
                s3 == Deregister(s2)
                s4 == ConsoleWrite(s3, "debug")
            IN init(s4, outcome)
       ELSE ConsoleWrite(self, "error")

\* the handler of src/host/worker.js without self.onmessage = null
OnMessageOverride_KeepsListening(self, data, outcome) ==
  IF self.RUST_OFFSCREEN_CANVAS # Null
  THEN ConsoleWrite(self, "warn")
  ELSE IF ShapeOk(data)
       THEN LET s1 == Store(self, data)
                s2 == InstallOverride(s1)
                s3 == ConsoleWrite(s2, "debug")
                s4 == ConsoleWrite(s3, "debug")
            IN init(s4, outcome)
       ELSE ConsoleWrite(self, "error")

\* the handler of src/host/worker.js reporting a bad payload with console.warn
OnMessageOverride_WarnsOnInvalid(self, data, outcome) ==
  IF self.RUST_OFFSCREEN_CANVAS # Null
  THEN ConsoleWrite(self, "warn")
  ELSE IF ShapeOk(data)
       THEN LET s1 == Store(self, data)
                s2 == InstallOverride(s1)
                s3 == ConsoleWrite(s2, "debug")
                s4 == Deregister(s3)
                s5 == ConsoleWrite(s4, "debug")
            IN init(s5, outcome)
       ELSE ConsoleWrite(self, "warn")

\* the handler of src/host/worker.js calling init() ahead of self.onmessage = null
OnMessageOverride_InitBeforeDeregister(self, data, outcome) ==
  IF self.RUST_OFFSCREEN_CANVAS # Null
  THEN ConsoleWrite(self, "warn")
  ELSE IF ShapeOk(data)
       THEN LET s1 == Store(self, data)
                s2 == InstallOverride(s1)
                s3 == ConsoleWrite(s2, "debug")
                s4 == init(s3, outcome)
                s5 == Deregister(s4)
            IN ConsoleWrite(s5, "debug")
       ELSE ConsoleWrite(self, "error")

\* self.onmessage of src/host/worker.js
OnMessageOverride(self, data, outcome) ==
  IF self.RUST_OFFSCREEN_CANVAS # Null
  THEN ConsoleWrite(self, "warn")
  ELSE IF ShapeOk(data)
       THEN LET s1 == Store(self, data)
                s2 == InstallOverride(s1)
                s3 == ConsoleWrite(s2, "debug")
                s4 == Deregister(s3)
                s5 == ConsoleWrite(s4, "debug")
            IN init(s5, outcome)
       ELSE ConsoleWrite(self, "error")

\* the event loop hands the message to self.onmessage, if there is one
Dispatch(v, data, outcome) ==
  IF onmessage[v] = Null THEN Self(v)
  ELSE IF v = "override" THEN OnMessageOverride(Self(v), data, outcome)
       ELSE OnMessageBaseline(Self(v), data, outcome)

\* one message event, run to completion in both workers
Receive(data, outcome) ==
  /\ LET after == [v \in Variants |-> Dispatch(v, data, outcome)] IN
       /\ RUST_OFFSCREEN_CANVAS' = [v \in Variants |-> after[v].RUST_OFFSCREEN_CANVAS]
       /\ onmessage' = [v \in Variants |-> after[v].onmessage]
       /\ getContext' = [v \in Variants |-> after[v].getContext]
       /\ console' = [v \in Variants |-> after[v].console]
       /\ initCalls' = [v \in Variants |-> after[v].initCalls]
       /\ effects' = [v \in Variants |-> after[v].effects]
  /\ event' = data
  /\ delivered' = delivered + 1
  /\ UNCHANGED <<call, calls, queue>>

\* the page posts a message and the idle worker handles it
Deliver(data, outcome) ==
  /\ delivered < MaxMessages
  /\ queue = << >>
  /\ Receive(data, outcome)

\* the worker handles the oldest of the messages that were posted ahead
DeliverQueued(outcome) ==
  /\ delivered < Len(queue)
  /\ Receive(queue[delivered + 1], outcome)

\* ------------------------------------------------------------ getContext
Fields == {"antialias", "desynchronized"}

\* an attributes object: each field absent, true or false
AttrObject(antialias, desynchronized) ==
  [f \in Fields |-> IF f = "antialias" THEN antialias ELSE desynchronized]

\* the object literal {}
EmptyObject == AttrObject("absent", "absent")

AttrObjects ==
  { EmptyObject,
    AttrObject("false", "absent"),
    AttrObject("false", "false"),
    AttrObject("absent", "true") }

ArgValues == {Undefined, Null, Str("webgl2"), Str("2d"), Obj(1)}

\* getContext(), getContext(a), getContext(a, b) and getContext(a, b, "extra")
ArgLists ==
  {<< >>}
  \cup { <<a>> : a \in ArgValues }
  \cup { <<a, b>> : a, b \in ArgValues }
  \cup { <<a, b, Str("extra")>> : a, b \in ArgValues }

\* the objects the caller built for one call: none, or one attributes object
CallerHeaps == {<< >>} \cup { <<o>> : o \in AttrObjects }

UsesObject(args) == \E i \in 1..Len(args) : args[i].tag = "object"

\* JS array element i (0-based): undefined past the end
At(args, i) == IF i + 1 <= Len(args) THEN args[i + 1] ELSE Undefined

\* args[i] = v (0-based), growing the array when i is past the end
SetAt(args, i, v) ==
  [k \in 1..(IF i + 1 > Len(args) THEN i + 1 ELSE Len(args)) |->
     IF k = i + 1 THEN v ELSE IF k <= Len(args) THEN args[k] ELSE Undefined]

\* the native getContext bound to the canvas: what it is called with decides
\* the context it hands back
ORIGINAL_GET_CONTEXT(canvas, args, heap) ==
  [ canvas |-> canvas.ref,
    type |-> At(args, 0),
    attrs |-> IF At(args, 1).tag = "object" THEN heap[At(args, 1).ref]
              ELSE EmptyObject,
    given |-> At(args, 1).tag ]

\* the override testing only args.length < 2: a second argument that is no
\* object is passed on as it is
OverrideArgs_LengthOnly(args, heap) ==
  IF At(args, 0) = Str("webgl2")
  THEN LET fresh == Len(args) < 2
           heap1 == IF fresh THEN Append(heap, EmptyObject) ELSE heap
           args1 == IF fresh THEN SetAt(args, 1, Obj(Len(heap1))) ELSE args
       IN [ args |-> args1,
            heap |-> IF At(args1, 1).tag = "object"
                     THEN [heap1 EXCEPT ![At(args1, 1).ref]["desynchronized"] = "true"]
                     ELSE heap1,
            console |-> <<"log", "debug">> ]
  ELSE [ args |-> args, heap |-> heap, console |-> <<"log", "debug">> ]

\* the override replacing the attributes by {desynchronized: true} every time
OverrideArgs_AlwaysFresh(args, heap) ==
  IF At(args, 0) = Str("webgl2")
  THEN LET heap1 == Append(heap, EmptyObject)
           args1 == SetAt(args, 1, Obj(Len(heap1)))
       IN [ args |-> args1,
            heap |-> [heap1 EXCEPT ![At(args1, 1).ref]["desynchronized"] = "true"],
            console |-> <<"log", "debug">> ]
  ELSE [ args |-> args, heap |-> heap, console |-> <<"log", "debug">> ]

\* the override forcing desynchronized for every context type
OverrideArgs_AnyType(args, heap) ==
  LET fresh == Len(args) < 2 \/ TypeOf(At(args, 1)) # "object" \/ At(args, 1) = Null
      heap1 == IF fresh THEN Append(heap, EmptyObject) ELSE heap
      args1 == IF fresh THEN SetAt(args, 1, Obj(Len(heap1))) ELSE args
  IN [ args |-> args1,
       heap |-> [heap1 EXCEPT ![At(args1, 1).ref]["desynchronized"] = "true"],
       console |-> <<"log", "debug">> ]

\* the override passing on a copy {...args[1], desynchronized: true}
OverrideArgs_CopiesAttributes(args, heap) ==
  IF At(args, 0) = Str("webgl2")
  THEN LET fresh == Len(args) < 2 \/ TypeOf(At(args, 1)) # "object" \/ At(args, 1) = Null
           copy == IF fresh THEN EmptyObject ELSE heap[At(args, 1).ref]
           heap1 == Append(heap, [copy EXCEPT !["desynchronized"] = "true"])
       IN [ args |-> SetAt(args, 1, Obj(Len(heap1))),
            heap |-> heap1,
            console |-> <<"log", "debug">> ]
  ELSE [ args |-> args, heap |-> heap, console |-> <<"log", "debug">> ]

\* the body of the arrow function up to the delegation: the argument list
\* and the heap it leaves
OverrideArgs(args, heap) ==
  IF At(args, 0) = Str("webgl2")
  THEN LET fresh == Len(args) < 2 \/ TypeOf(At(args, 1)) # "object" \/ At(args, 1) = Null
           heap1 == IF fresh THEN Append(heap, EmptyObject) ELSE heap
           args1 == IF fresh THEN SetAt(args, 1, Obj(Len(heap1))) ELSE args
       IN [ args |-> args1,
            heap |-> [heap1 EXCEPT ![At(args1, 1).ref]["desynchronized"] = "true"],
            console |-> <<"log", "debug">> ]
  ELSE [ args |-> args, heap |-> heap, console |-> <<"log", "debug">> ]

\* calling canvas.getContext(...args) when `layers` wrappers sit over the native one
RECURSIVE CallGetContext(_, _, _, _)
CallGetContext(layers, canvas, args, heap) ==
  IF layers = 0
  THEN [ nativeCalls |-> <<[args |-> args, heap |-> heap,
                            result |-> ORIGINAL_GET_CONTEXT(canvas, args, heap)]>>,
         result |-> ORIGINAL_GET_CONTEXT(canvas, args, heap),
         heap |-> heap,
         console |-> << >> ]
  ELSE LET o == OverrideArgs(args, heap)
           inner == CallGetContext(layers - 1, canvas, o.args, o.heap)
       IN [ nativeCalls |-> inner.nativeCalls,
            result |-> inner.result,
            heap |-> inner.heap,
            console |-> o.console \o inner.console ]

NoCall ==
  [ args |-> << >>, heapBefore |-> << >>, nativeCalls |-> << >>,
    result |-> Undefined, heapAfter |-> << >> ]

\* the started module calls self.RUST_OFFSCREEN_CANVAS.getContext(...args)
GetContext(args, heap) ==
  /\ calls < MaxCalls
  /\ UsesObject(args) <=> heap # << >>
  /\ \A v \in Variants :
       /\ RUST_OFFSCREEN_CANVAS[v] # Null
       /\ initCalls[v] # << >>
       /\ initCalls[v][Len(initCalls[v])].outcome = "started"
  /\ LET done == [v \in Variants |->
                   CallGetContext(getContext[v][RUST_OFFSCREEN_CANVAS[v].ref],
                                  RUST_OFFSCREEN_CANVAS[v], args, heap)] IN
       /\ call' = [v \in Variants |->
                    [ args |-> args, heapBefore |-> heap,
                      nativeCalls |-> done[v].nativeCalls,
                      result |-> done[v].result,
                      heapAfter |-> done[v].heap ]]
       /\ console' = [v \in Variants |-> console[v] \o done[v].console]
  /\ calls' = calls + 1
  /\ UNCHANGED <<RUST_OFFSCREEN_CANVAS, onmessage, getContext, initCalls, event, delivered,
                 effects, queue>>

\* ------------------------------------------------------------ specification
Init ==
  /\ RUST_OFFSCREEN_CANVAS = [v \in Variants |-> Null]
  /\ onmessage = [v \in Variants |-> Handler]
  /\ getContext = [v \in Variants |-> [c \in CanvasIds |-> 0]]
  /\ console = [v \in Variants |-> <<"debug">>]
  /\ initCalls = [v \in Variants |-> << >>]
  /\ event = NoEvent
  /\ delivered = 0
  /\ call = [v \in Variants |-> NoCall]
  /\ calls = 0
  /\ effects = [v \in Variants |-> << >>]
  /\ queue = << >>

Next ==
  \/ \E data \in Messages, outcome \in InitOutcomes : Deliver(data, outcome)
  \/ \E args \in ArgLists, heap \in CallerHeaps : GetContext(args, heap)

Spec == Init /\ [][Next]_vars

\* every message is already posted when the worker handles the first one
QueuedMessages == UNION { [1..n -> Messages] : n \in 0..MaxMessages }

InitQueued ==
  /\ RUST_OFFSCREEN_CANVAS = [v \in Variants |-> Null]
  /\ onmessage = [v \in Variants |-> Handler]
  /\ getContext = [v \in Variants |-> [c \in CanvasIds |-> 0]]
  /\ console = [v \in Variants |-> <<"debug">>]
  /\ initCalls = [v \in Variants |-> << >>]
  /\ event = NoEvent
  /\ delivered = 0
  /\ call = [v \in Variants |-> NoCall]
  /\ calls = 0
  /\ effects = [v \in Variants |-> << >>]
  /\ queue \in QueuedMessages

NextQueued == \E outcome \in InitOutcomes : DeliverQueued(outcome)

SpecQueued == InitQueued /\ [][NextQueued]_vars

\* the event loop keeps dispatching while messages are queued
SpecQueuedFair == SpecQueued /\ WF_vars(NextQueued)

\* ------------------------------------------------------------ vocabulary of the properties
Count(seq, x) == Cardinality({i \in DOMAIN seq : seq[i] = x})

\* the Initialization Message {type: "CANVAS", canvas: <OffscreenCanvas>}
WellFormed(data) ==
  \E c \in CanvasIds : data = Data(Obj(0), Str("CANVAS"), OffscreenCanvas(c))

\* state SurfaceBound of variant v (AwaitingSurface otherwise)
SurfaceBound(v) == RUST_OFFSCREEN_CANVAS[v] # Null

\* messages delivered after variant v bound its surface
LateMessages(v) == delivered - Count(console[v], "error") - 1

\* ------------------------------------------------------------ C1
\* C1: a well-formed message handled while the surface is absent leaves the
\* surface equal to its canvas and the handler deregistered; every message
\* delivered after that, whatever its shape, changes neither the surface nor
\* the handler registration.
C1_BindThenFrozen ==
  [][\A v \in Variants :
       /\ (~SurfaceBound(v) /\ delivered' = delivered + 1 /\ WellFormed(event'))
            => /\ RUST_OFFSCREEN_CANVAS'[v] = event'.canvas
               /\ onmessage'[v] = Null
       /\ (SurfaceBound(v) /\ delivered' = delivered + 1)
            => /\ RUST_OFFSCREEN_CANVAS'[v] = RUST_OFFSCREEN_CANVAS[v]
               /\ onmessage[v] = Null
               /\ onmessage'[v] = Null]_vars

\* two messages were delivered after the binding one
C1_Witness ==
  \A v \in Variants :
    SurfaceBound(v) /\ onmessage[v] = Null /\ LateMessages(v) = 2

\* ------------------------------------------------------------ C2
\* C2: the surface is written at most once: it starts absent, the only write
\* stores the canvas of a well-formed message delivered while it was absent,
\* and once set it keeps that value in every later step.
C2_WrittenOnce ==
  [][\A v \in Variants :
       /\ SurfaceBound(v) => RUST_OFFSCREEN_CANVAS'[v] = RUST_OFFSCREEN_CANVAS[v]
       /\ (~SurfaceBound(v) /\ SurfaceBound(v)')
            => /\ delivered' = delivered + 1
               /\ WellFormed(event')
               /\ RUST_OFFSCREEN_CANVAS'[v] = event'.canvas
               /\ Count(console[v], "error") = delivered]_vars

\* a second well-formed message, carrying another canvas, has been delivered
C2_Witness ==
  \A v \in Variants :
    /\ SurfaceBound(v)
    /\ LateMessages(v) >= 1
    /\ WellFormed(event)
    /\ event.canvas # RUST_OFFSCREEN_CANVAS[v]

C4_MalformedRejected ==
  [][\A v \in Variants :
       (~SurfaceBound(v) /\ delivered' = delivered + 1 /\ ~WellFormed(event'))
         => /\ RUST_OFFSCREEN_CANVAS'[v] = Null
            /\ onmessage[v] = Handler
            /\ onmessage'[v] = Handler
            /\ initCalls'[v] = initCalls[v]
            /\ getContext'[v] = getContext[v]
            /\ console'[v] = Append(console[v], "error")]_vars

\* the message with a plain object as canvas has just been rejected
C4_Witness ==
  \A v \in Variants :
    /\ ~SurfaceBound(v)
    /\ event = Data(Obj(0), Str("CANVAS"), Obj(0))
    /\ Count(console[v], "error") = delivered
    /\ delivered >= 1

\* ------------------------------------------------------------ C5
\* C5: after any number of malformed messages the worker is as it started,
\* but for the error reports (surface absent, handler registered, init not
\* invoked), and the next well-formed message binds its canvas, deregisters
\* the handler and invokes init once, as on a fresh worker.
C5_MalformedThenValid ==
  [][\A v \in Variants :
       /\ ~SurfaceBound(v)
            => /\ onmessage[v] = Handler
               /\ initCalls[v] = << >>
               /\ getContext[v] = [c \in CanvasIds |-> 0]
               /\ console[v] = [i \in 1..(delivered + 1) |->
                                  IF i = 1 THEN "debug" ELSE "error"]
       /\ (~SurfaceBound(v) /\ delivered' = delivered + 1 /\ WellFormed(event'))
            => /\ RUST_OFFSCREEN_CANVAS'[v] = event'.canvas
               /\ onmessage'[v] = Null
               /\ Len(initCalls'[v]) = 1
               /\ initCalls'[v][1].canvasAtCall = event'.canvas
               /\ console'[v] = console[v] \o <<"debug", "debug">>]_vars

\* two malformed messages, then a well-formed one that bound its canvas
C5_Witness ==
  \A v \in Variants :
    /\ SurfaceBound(v)
    /\ Count(console[v], "error") = 2
    /\ delivered = 3
    /\ Len(initCalls[v]) = 1

\* ------------------------------------------------------------ C6
\* C6: init is invoked at most once, exactly once when a well-formed message
\* was processed, never with the surface still absent; every invocation loads
\* "./app/rose-sample-rs.js" and, when the load returns, starts the module
\* with module_or_path "./app/rose-sample-rs_bg.wasm".
C6_BootstrapOnce ==
  \A v \in Variants :
    /\ Len(initCalls[v]) <= 1
    /\ Len(initCalls[v]) = 1 <=> SurfaceBound(v)
    /\ \A i \in DOMAIN initCalls[v] :
         /\ initCalls[v][i].canvasAtCall = RUST_OFFSCREEN_CANVAS[v]
         /\ initCalls[v][i].canvasAtCall # Null
         /\ initCalls[v][i].importScripts = <<"./app/rose-sample-rs.js">>
         /\ initCalls[v][i].outcome # "import_failed"
              => initCalls[v][i].wasm_bindgen
                   = <<[module_or_path |-> "./app/rose-sample-rs_bg.wasm"]>>
         /\ initCalls[v][i].outcome = "import_failed"
              => initCalls[v][i].wasm_bindgen = << >>

\* the module was started and two more messages arrived afterwards
C6_Witness ==
  \A v \in Variants :
    /\ Len(initCalls[v]) = 1
    /\ initCalls[v][1].outcome = "started"
    /\ LateMessages(v) = 2
    /\ WellFormed(event)

\* ------------------------------------------------------------ C7
\* the last getContext call of the override variant, once one was made
OverrideCall == call["override"]

\* C7: in the override variant a getContext call with "webgl2" first and a
\* second argument that is missing, null or not an object reaches the native
\* operation once, with "webgl2" and an object built by the override whose
\* only field is desynchronized = true; arguments after the second are passed
\* on as given.
C7_Webgl2FreshAttributes ==
  (/\ calls > 0
   /\ At(OverrideCall.args, 0) = Str("webgl2")
   /\ At(OverrideCall.args, 1).tag # "object")
    => /\ Len(OverrideCall.nativeCalls) = 1
       /\ LET native == OverrideCall.nativeCalls[1]
              given == OverrideCall.args
          IN /\ Len(native.args) = (IF Len(given) < 2 THEN 2 ELSE Len(given))
             /\ At(native.args, 0) = Str("webgl2")
             /\ At(native.args, 1).tag = "object"
             /\ At(native.args, 1).ref \notin DOMAIN OverrideCall.heapBefore
             /\ At(native.args, 1).ref \in DOMAIN native.heap
             /\ native.heap[At(native.args, 1).ref]
                  = [f \in Fields |-> IF f = "desynchronized" THEN "true" ELSE "absent"]
             /\ \A i \in 3..Len(given) : native.args[i] = given[i]

\* getContext("webgl2", "2d"): a second argument that is not an object
C7_Witness ==
  /\ calls > 0
  /\ OverrideCall.args = <<Str("webgl2"), Str("2d")>>
  /\ Len(OverrideCall.nativeCalls) = 1

\* ------------------------------------------------------------ C8
\* C8: in the override variant a getContext call with "webgl2" and an
\* attributes object reaches the native operation with that object, every
\* field as the caller set it except desynchronized, which is true.
C8_Webgl2KeepsFields ==
  (/\ calls > 0
   /\ At(OverrideCall.args, 0) = Str("webgl2")
   /\ At(OverrideCall.args, 1).tag = "object")
    => /\ Len(OverrideCall.nativeCalls) = 1
       /\ LET native == OverrideCall.nativeCalls[1]
              given == OverrideCall.args
              before == OverrideCall.heapBefore[At(given, 1).ref]
              passed == native.heap[At(native.args, 1).ref]
          IN /\ Len(native.args) = Len(given)
             /\ At(native.args, 0) = Str("webgl2")
             /\ At(native.args, 1).tag = "object"
             /\ passed["desynchronized"] = "true"
             /\ \A f \in Fields \ {"desynchronized"} : passed[f] = before[f]
             /\ \A i \in 3..Len(given) : native.args[i] = given[i]

\* getContext("webgl2", {antialias: false, desynchronized: false})
C8_Witness ==
  /\ calls > 0
  /\ OverrideCall.args = <<Str("webgl2"), Obj(1)>>
  /\ OverrideCall.heapBefore = <<AttrObject("false", "false")>>
  /\ Len(OverrideCall.nativeCalls) = 1

\* ------------------------------------------------------------ C9
\* C9: in the override variant a getContext call whose first argument is not
\* "webgl2" reaches the native operation with the argument list as given and
\* the caller's objects untouched; and every call, of any context type,
\* reaches the native operation exactly once and returns what it returned.
C9_OtherTypesPassThrough ==
  calls > 0
    => /\ Len(OverrideCall.nativeCalls) = 1
       /\ OverrideCall.result = OverrideCall.nativeCalls[1].result
       /\ At(OverrideCall.args, 0) # Str("webgl2")
            => /\ OverrideCall.nativeCalls[1].args = OverrideCall.args
               /\ OverrideCall.nativeCalls[1].heap = OverrideCall.heapBefore
               /\ OverrideCall.heapAfter = OverrideCall.heapBefore

\* getContext("2d", {antialias: false})
C9_Witness ==
  /\ calls > 0
  /\ OverrideCall.args = <<Str("2d"), Obj(1)>>
  /\ OverrideCall.heapBefore = <<AttrObject("false", "absent")>>
  /\ OverrideCall.result = OverrideCall.nativeCalls[1].result

\* ------------------------------------------------------------ C10
\* init() of variant v was invoked and did not get the module started
BootstrapFailed(v) ==
  /\ initCalls[v] # << >>
  /\ initCalls[v][Len(initCalls[v])].outcome # "started"

\* C10: once the bootstrap step has failed, the surface stays set, the
\* handler stays deregistered, and no later step, whatever message is
\* delivered, invokes init again.
C10_NoRetry ==
  [][\A v \in Variants :
       BootstrapFailed(v)
         => /\ SurfaceBound(v)
            /\ onmessage[v] = Null
            /\ RUST_OFFSCREEN_CANVAS'[v] = RUST_OFFSCREEN_CANVAS[v]
            /\ onmessage'[v] = Null
            /\ initCalls'[v] = initCalls[v]]_vars

\* importScripts threw, and a well-formed message has been delivered since
C10_Witness ==
  \A v \in Variants :
    /\ initCalls[v] # << >>
    /\ initCalls[v][1].outcome = "import_failed"
    /\ LateMessages(v) >= 1
    /\ WellFormed(event)
    /\ event.canvas # RUST_OFFSCREEN_CANVAS[v]
    /\ Len(initCalls[v]) = 1

\* ------------------------------------------------------------ C11
IsReport(level) == level \in {"warn", "error"}

\* the warning- and error-level reports of variant v, in order
Reports(v) == SelectSeq(console[v], IsReport)

\* an init() invocation without the snapshot of getContext
Bootstrap(v) ==
  [i \in DOMAIN initCalls[v] |->
     [ importScripts |-> initCalls[v][i].importScripts,
       wasm_bindgen |-> initCalls[v][i].wasm_bindgen,
       outcome |-> initCalls[v][i].outcome,
       canvasAtCall |-> initCalls[v][i].canvasAtCall,
       onmessageAtCall |-> initCalls[v][i].onmessageAtCall ]]

\* C11: fed the same messages, the baseline and the override variant agree
\* after every message on the surface, on the handler registration, on the
\* warning- and error-level reports and on the init() invocations (on the
\* whole console as long as getContext was not called); they differ only in
\* getContext of the bound canvas, which the override variant has wrapped.
C11_VariantsAgree ==
  /\ RUST_OFFSCREEN_CANVAS["baseline"] = RUST_OFFSCREEN_CANVAS["override"]
  /\ onmessage["baseline"] = onmessage["override"]
  /\ Reports("baseline") = Reports("override")
  /\ calls = 0 => console["baseline"] = console["override"]
  /\ Bootstrap("baseline") = Bootstrap("override")
  /\ \A c \in CanvasIds :
       /\ getContext["baseline"][c] = 0
       /\ getContext["override"][c] =
            (IF RUST_OFFSCREEN_CANVAS["override"] = OffscreenCanvas(c) THEN 1 ELSE 0)

\* a malformed message, the binding one and a late one have been delivered
C11_Witness ==
  /\ delivered = 3
  /\ Reports("override") = <<"error">>
  /\ SurfaceBound("override")
  /\ SurfaceBound("baseline")
  /\ getContext["override"] # getContext["baseline"]

\* ------------------------------------------------------------ C12
\* C12: the success path stores the surface, installs the override (override
\* variant), deregisters the handler and then calls init(), in this order; so
\* when init() starts the surface is set, the override is in place and the
\* handler is deregistered.
C12_SuccessPathOrder ==
  /\ effects["override"] =
       (IF SurfaceBound("override")
        THEN <<"store", "install", "deregister", "init">> ELSE << >>)
  /\ effects["baseline"] =
       (IF SurfaceBound("baseline") THEN <<"store", "deregister", "init">> ELSE << >>)
  /\ \A v \in Variants : \A i \in DOMAIN initCalls[v] :
       /\ initCalls[v][i].canvasAtCall \in { OffscreenCanvas(c) : c \in CanvasIds }
       /\ initCalls[v][i].onmessageAtCall = Null
       /\ initCalls[v][i].getContextAtCall[initCalls[v][i].canvasAtCall.ref]
            = (IF v = "override" THEN 1 ELSE 0)

\* the first message delivered was well-formed and init() has run
C12_Witness ==
  /\ delivered = 1
  /\ WellFormed(event)
  /\ \A v \in Variants : Len(initCalls[v]) = 1 /\ Len(effects[v]) >= 3

\* ------------------------------------------------------------ C13
\* what the handler of variant v does when invoked in the current state
Invoke(v, data, outcome) ==
  IF v = "override" THEN OnMessageOverride(Self(v), data, outcome)
  ELSE OnMessageBaseline(Self(v), data, outcome)

\* C13: invoked with the surface already set, the handler returns at the
\* already-initialized check whatever the message: it writes its warning and
\* nothing else, so a malformed message gets no error-level report and no
\* state changes.
C13_BoundCheckFirst ==
  \A v \in Variants :
    SurfaceBound(v) =>
      \A data \in Messages, outcome \in InitOutcomes :
        Invoke(v, data, outcome) = ConsoleWrite(Self(v), "warn")

\* the surface is set and the last message delivered was a malformed one
C13_Witness ==
  \A v \in Variants :
    /\ SurfaceBound(v)
    /\ LateMessages(v) >= 1
    /\ event = Data(Obj(0), Str("PING"), OffscreenCanvas(1))

\* ------------------------------------------------------------ C14
\* positions of the well-formed messages among those handled so far
HandledWellFormed == {i \in 1..delivered : WellFormed(queue[i])}

\* C14: with all messages queued before the first is handled, each one is
\* handled to completion before the next: after any number of them the bound
\* canvas is that of the earliest well-formed message handled, init() has run
\* exactly once and the handler is deregistered; with none handled yet the
\* surface is absent and init() has not run.
C14_QueuedBindsEarliest ==
  \A v \in Variants :
    IF HandledWellFormed = {}
    THEN /\ ~SurfaceBound(v)
         /\ onmessage[v] = Handler
         /\ initCalls[v] = << >>
    ELSE /\ \A i \in HandledWellFormed :
              (\A j \in HandledWellFormed : i <= j)
                => RUST_OFFSCREEN_CANVAS[v] = queue[i].canvas
         /\ onmessage[v] = Null
         /\ Len(initCalls[v]) = 1
         /\ Count(effects[v], "store") = 1

\* a malformed message and two well-formed ones with different canvases were
\* queued, and all three have been handled
C14_Witness ==
  /\ Len(queue) = 3
  /\ delivered = 3
  /\ ~WellFormed(queue[1])
  /\ WellFormed(queue[2])
  /\ WellFormed(queue[3])
  /\ queue[2] # queue[3]
  /\ \A v \in Variants : RUST_OFFSCREEN_CANVAS[v] = queue[2].canvas

\* ------------------------------------------------------------ C15
\* a well-formed message is among the posted ones
WellFormedPosted == \E i \in DOMAIN queue : WellFormed(queue[i])

\* C15: when the event loop keeps delivering, a well-formed message posted
\* while the worker awaits its surface leads to SurfaceBound with init()
\* invoked; when none is posted the worker stays in AwaitingSurface, handler
\* registered, init() never invoked.
C15_HandshakeCompletes ==
  /\ WellFormedPosted ~> (\A v \in Variants : SurfaceBound(v) /\ Len(initCalls[v]) = 1)
  /\ [](~WellFormedPosted =>
          \A v \in Variants :
            /\ ~SurfaceBound(v)
            /\ onmessage[v] = Handler
            /\ initCalls[v] = << >>)

\* the well-formed message was third in the queue and has bound its canvas
C15_Witness ==
  /\ Len(queue) = 3
  /\ delivered = 3
  /\ ~WellFormed(queue[1])
  /\ ~WellFormed(queue[2])
  /\ WellFormed(queue[3])
  /\ \A v \in Variants : SurfaceBound(v) /\ Len(initCalls[v]) = 1

\* ------------------------------------------------------------ C16
\* C16: between deliveries the handler is registered exactly when the
\* surface is absent.
C16_HandlerIffAwaiting ==
  \A v \in Variants :
    /\ onmessage[v] \in {Handler, Null}
    /\ onmessage[v] = Handler <=> ~SurfaceBound(v)

\* a rejected message, then the binding one
C16_Witness ==
  \A v \in Variants :
    /\ delivered = 2
    /\ Count(console[v], "error") = 1
    /\ SurfaceBound(v)
    /\ onmessage[v] = Null

\* ------------------------------------------------------------ C17
\* C17: in the override variant the override is installed at most once, on
\* the bound canvas only and one wrapper deep, so a getContext call runs the
\* wrapper once and reaches the native operation once; a rejected or a late
\* message installs nothing.
C17_InstalledOnce ==
  /\ Count(effects["override"], "install") = (IF SurfaceBound("override") THEN 1 ELSE 0)
  /\ \A c \in CanvasIds :
       getContext["override"][c] =
         (IF RUST_OFFSCREEN_CANVAS["override"] = OffscreenCanvas(c) THEN 1 ELSE 0)
  /\ Count(console["override"], "log") = calls
  /\ calls > 0 => Len(call["override"].nativeCalls) = 1
  /\ Count(effects["override"], "store") = Count(effects["override"], "install")

\* a rejected message, the binding one, a late well-formed one with the other
\* canvas, and then a getContext call
C17_Witness ==
  /\ calls = 1
  /\ delivered = 3
  /\ Reports("override") = <<"error">>
  /\ WellFormed(event)
  /\ event.canvas # RUST_OFFSCREEN_CANVAS["override"]
  /\ Len(call["override"].nativeCalls) = 1

\* ------------------------------------------------------------ C18
\* C18: in the override variant, a getContext call with "webgl2" and an
\* attributes object passes that very object to the native operation, makes
\* no other object, and leaves the caller's object with desynchronized = true
\* and its other fields as they were; for another context type the caller's
\* object is left as it was.
C18_AttributesMutatedInPlace ==
  (calls > 0 /\ At(OverrideCall.args, 1).tag = "object")
    => LET given == OverrideCall.args
           r == At(given, 1).ref
           native == OverrideCall.nativeCalls[1]
       IN IF At(given, 0) = Str("webgl2")
          THEN /\ At(native.args, 1) = At(given, 1)
               /\ Len(OverrideCall.heapAfter) = Len(OverrideCall.heapBefore)
               /\ OverrideCall.heapAfter[r]["desynchronized"] = "true"
               /\ \A f \in Fields \ {"desynchronized"} :
                    OverrideCall.heapAfter[r][f] = OverrideCall.heapBefore[r][f]
               /\ native.heap = OverrideCall.heapAfter
          ELSE /\ OverrideCall.heapAfter = OverrideCall.heapBefore
               /\ At(native.args, 1) = At(given, 1)

\* getContext("webgl2", {antialias: false}) has returned
C18_Witness ==
  /\ calls > 0
  /\ OverrideCall.args = <<Str("webgl2"), Obj(1)>>
  /\ OverrideCall.heapBefore = <<AttrObject("false", "absent")>>
  /\ OverrideCall.heapAfter = <<AttrObject("false", "true")>>

====
